---- MODULE Spec2Model ----
(***************************************************************************)
(* relish-notifier (src/main.go): the run of one process, from main to its *)
(* exit.  The orchestrator (main / runNotifier) is one sequential thread   *)
(* whose position is pc; the goroutine of lines 329-333 is the variable    *)
(* handler; the operating system's signal is the action Signal.  Every     *)
(* call into the browser library is one step whose result (success, error  *)
(* return, or panic for the Must* calls) is chosen by the environment.     *)
(***************************************************************************)
EXTENDS Integers, Sequences, FiniteSets, TLC

\* Bound of the model: the polling loop is cut after this many status reads.
MaxChecks == 3

\* Bound of the model: a function called on its own is called with the same
\* arguments at most this many times.
MaxCalls == 2

VARIABLES
    pc,          \* position of the orchestrator thread
    form,        \* which login form waitAndSubmit is working on
    config,      \* Config: Once, Command, Interval
    credentials, \* *Credentials returned by getCredentials, or NoCredentials
    browser,     \* Notifier.browser: "nil", "open" or "closed"
    page,        \* Notifier.page is set
    handler,     \* signal goroutine: "none", "waiting" (on sigChan), "done"
    sigChan,     \* number of signals buffered in sigChan (capacity 1)
    ctxDone,     \* ctx.Done() is closed
    status,      \* status returned by the last CheckOrderStatus
    checkErr,    \* the last CheckOrderStatus returned an error
    lastErr,     \* error (or panic) of the latest library call, "nil" for none
    nUnknown,    \* consecutive status reads classified Unknown
    stdout,      \* lines printed on standard output
    exitCode,    \* exit status of the process once pc = "Exited"
    outcome,     \* the statement that ended the run
    nLogin,      \* calls of Login
    nChecks,     \* calls of CheckOrderStatus
    nWaits,      \* entries into the inter-poll select
    nReloads,    \* calls of Refresh
    nCommands,   \* executions of the post-arrival command
    deadline,    \* n.page carries the timeout of config.PageTimeout
    cancelAt,    \* where the orchestrator was when cancel() was called, "" before
    afterCancel, \* browser page calls made since cancel() was called
    pageText, \* text of the status element in the latest status read, <<>> if none
    arrivedForGood, \* from now on the status element is there and shows Arrived
    call,        \* a function called on its own: its name and arguments
    ret          \* what that call returned, NoReturn before

vars == <<pc, form, config, credentials, browser, page, handler, sigChan,
          ctxDone, status, checkErr, lastErr, nUnknown, stdout, exitCode, outcome,
          nLogin, nChecks, nWaits, nReloads, nCommands, deadline, cancelAt,
          afterCancel, pageText, arrivedForGood, call, ret>>

----------------------------------------------------------------------------
(* Strings that are inspected character by character are sequences of      *)
(* one-character strings.                                                   *)

OrderStatusPlaced ==
    <<"O","r","d","e","r"," ","P","l","a","c","e","d">>
OrderStatusPreparing ==
    <<"P","r","e","p","a","r","i","n","g"," ","Y","o","u","r"," ","O","r","d","e","r">>
OrderStatusArrived ==
    <<"O","r","d","e","r"," ","A","r","r","i","v","e","d">>
OrderStatusUnknown ==
    <<"U","n","k","n","o","w","n">>

OrderStatuses ==
    {OrderStatusPlaced, OrderStatusPreparing, OrderStatusArrived, OrderStatusUnknown}

\* string(os), the conversion of an OrderStatus to its underlying string:
\* OrderStatus is a string type (line 42), the characters are the same.
string(os) == os

\* OrderStatus.String returning the text in quotes, as formatting with %q
\* would.
String_Quoted(os) == <<"\"">> \o string(os) \o <<"\"">>

\* OrderStatus.String
String(os) == string(os)

\* strings.HasPrefix
HasPrefix(s, prefix) ==
    Len(s) >= Len(prefix) /\ SubSeq(s, 1, Len(prefix)) = prefix

\* textToStatus matching the phrases as prefixes of the text instead of
\* comparing the whole text.
textToStatus_HasPrefix(text) ==
    CASE HasPrefix(text, string(OrderStatusPlaced))    -> OrderStatusPlaced
      [] HasPrefix(text, string(OrderStatusPreparing)) -> OrderStatusPreparing
      [] HasPrefix(text, string(OrderStatusArrived))   -> OrderStatusArrived
      [] OTHER                                       -> OrderStatusUnknown

\* textToStatus keeping the status of the latest read for a text it does
\* not know.
textToStatus_Sticky(text) ==
    CASE text = string(OrderStatusPlaced)    -> OrderStatusPlaced
      [] text = string(OrderStatusPreparing) -> OrderStatusPreparing
      [] text = string(OrderStatusArrived)   -> OrderStatusArrived
      [] OTHER                               -> status

\* textToStatus
textToStatus(text) ==
    CASE text = string(OrderStatusPlaced)    -> OrderStatusPlaced
      [] text = string(OrderStatusPreparing) -> OrderStatusPreparing
      [] text = string(OrderStatusArrived)   -> OrderStatusArrived
      [] OTHER                               -> OrderStatusUnknown

\* unicode.IsSpace on the characters of the model's alphabet
IsSpace(c) == c \in {" ", "\t", "\n", "\r"}

RECURSIVE TrimLeft(_)
TrimLeft(s) ==
    IF Len(s) > 0 /\ IsSpace(Head(s)) THEN TrimLeft(Tail(s)) ELSE s

RECURSIVE TrimRight(_)
TrimRight(s) ==
    IF Len(s) > 0 /\ IsSpace(s[Len(s)])
    THEN TrimRight(SubSeq(s, 1, Len(s) - 1))
    ELSE s

\* strings.TrimSpace
TrimSpace(s) == TrimRight(TrimLeft(s))

\* Texts the status element of the page may hold.
PageTexts ==
    { OrderStatusPlaced,
      OrderStatusPreparing,
      OrderStatusArrived,
      <<" ", "\n">> \o OrderStatusArrived \o <<"\n">>,
      <<"\t">> \o OrderStatusPlaced \o <<" ">>,
      OrderStatusUnknown,
      <<"o","r","d","e","r"," ","a","r","r","i","v","e","d">>,
      OrderStatusArrived \o <<"!">>,
      <<"O","r","d","e","r">>,
      <<>> }

----------------------------------------------------------------------------
(* Credentials                                                              *)

NoCredentials == [Username |-> "", Password |-> ""]

\* Results of keyring.Get: (value, err)
KeyringResults(v) ==
    { [val |-> "", err |-> TRUE], [val |-> "", err |-> FALSE], [val |-> v, err |-> FALSE] }

\* Results of os.Getenv
EnvValues(v) == {"", v}

\* Error messages are sequences of words; a nil error is the empty one.
NoError == <<>>

\* The message of the error keyring.Get returned, as %w puts it into the
\* messages below.
KeyringErr == <<"secret", "not", "found", "in", "keyring">>

ErrNoUsername ==
    <<"failed", "to", "get", "username", "from", "keyring", "(">> \o KeyringErr \o
    <<")", "and", "RELISH_USERNAME", "environment", "variable", "is", "not", "set">>
ErrNoPassword ==
    <<"failed", "to", "get", "password", "from", "keyring", "(">> \o KeyringErr \o
    <<")", "and", "RELISH_PASSWORD", "environment", "variable", "is", "not", "set">>
ErrMissing ==
    <<"missing", "credentials:", "both", "keyring", "and", "environment", "variables",
      "are", "empty">>

\* The lookups made for one field, in order: the keyring under the given
\* account, then, if that failed, the environment variable.
Lookups(account, variable, k) ==
    <<account>> \o (IF k.err THEN <<variable>> ELSE <<>>)

\* getCredentials without the fallback to the environment: a failed keyring
\* lookup is an error at once.
getCredentials_NoFallback(kUser, envUser, kPass, envPass) ==
    IF kUser.err
    THEN [creds |-> NoCredentials, err |-> ErrNoUsername, lookups |-> <<"EMAIL">>]
    ELSE IF kPass.err
    THEN [creds |-> NoCredentials, err |-> ErrNoPassword,
          lookups |-> <<"EMAIL", "PASSWORD">>]
    ELSE IF kUser.val = "" \/ kPass.val = ""
    THEN [creds |-> NoCredentials, err |-> ErrMissing, lookups |-> <<"EMAIL", "PASSWORD">>]
    ELSE [creds |-> [Username |-> kUser.val, Password |-> kPass.val], err |-> NoError,
          lookups |-> <<"EMAIL", "PASSWORD">>]

\* getCredentials, as a function of what the keyring and the environment
\* answer: (credentials, err), and beside them the lookups the call made,
\* in order (keyring accounts and environment variables by name).
getCredentials(kUser, envUser, kPass, envPass) ==
    LET username == IF kUser.err THEN envUser ELSE kUser.val
        password == IF kPass.err THEN envPass ELSE kPass.val
        userLookups == Lookups("EMAIL", "RELISH_USERNAME", kUser)
        passLookups == Lookups("PASSWORD", "RELISH_PASSWORD", kPass)
    IN  IF kUser.err /\ username = ""
        THEN [creds |-> NoCredentials, err |-> ErrNoUsername, lookups |-> userLookups]
        ELSE IF kPass.err /\ password = ""
        THEN [creds |-> NoCredentials, err |-> ErrNoPassword,
              lookups |-> userLookups \o passLookups]
        ELSE IF username = "" \/ password = ""
        THEN [creds |-> NoCredentials, err |-> ErrMissing,
              lookups |-> userLookups \o passLookups]
        ELSE [creds |-> [Username |-> username, Password |-> password], err |-> NoError,
              lookups |-> userLookups \o passLookups]

----------------------------------------------------------------------------
(* Configuration: the flags of main that the run reads.                    *)

Commands == {"", "notify-send arrived"}
Intervals == {-1, 0, 30}

Configs == [Once : BOOLEAN, Command : Commands, Interval : Intervals]

Running == pc \notin {"Exited", "Killed"}

\* No function is called on its own: the process runs main.
NoCall == [fn |-> "main"]
NoReturn == [fn |-> "none"]

Init ==
    /\ pc = "Start"
    /\ form = "none"
    /\ config \in Configs
    /\ credentials = NoCredentials
    /\ browser = "nil"
    /\ page = FALSE
    /\ handler = "none"
    /\ sigChan = 0
    /\ ctxDone = FALSE
    /\ status = OrderStatusUnknown
    /\ checkErr = FALSE
    /\ lastErr = "nil"
    /\ nUnknown = 0
    /\ stdout = <<>>
    /\ exitCode = -1
    /\ outcome = "running"
    /\ nLogin = 0
    /\ nChecks = 0
    /\ nWaits = 0
    /\ nReloads = 0
    /\ nCommands = 0
    /\ deadline = FALSE
    /\ cancelAt = ""
    /\ afterCancel = 0
    /\ pageText = <<>>
    /\ arrivedForGood = FALSE
    /\ call = NoCall
    /\ ret = NoReturn

----------------------------------------------------------------------------
(* The ways the process ends.                                               *)

\* Notifier.Close
Close(b) == IF b # "nil" THEN "closed" ELSE b

\* main, lines 297-300: a non-nil error of rootCmd.Execute exits with 1,
\* a nil one lets main return.
MainExitCode(failed) == IF failed THEN 1 ELSE 0

\* runNotifier returns: the deferred cancel() (line 324, once the context
\* exists) and notifier.Close() (line 315) run, then main exits.
Return(failed, why) ==
    /\ browser' = Close(browser)
    /\ ctxDone' = IF handler # "none" THEN TRUE ELSE ctxDone
    /\ pc' = "Exited"
    /\ exitCode' = MainExitCode(failed)
    /\ outcome' = why

\* A Must* call of the browser library panics: the deferred calls run as
\* the panic unwinds runNotifier, nothing recovers it, and the Go runtime
\* ends the process with status 2.  b is the value of n.browser at the panic.
Panic(b, why) ==
    /\ browser' = Close(b)
    /\ ctxDone' = IF handler # "none" THEN TRUE ELSE ctxDone
    /\ pc' = "Exited"
    /\ exitCode' = 2
    /\ outcome' = why

\* os.Exit: the process ends at once; deferred calls do not run.
OsExit(code, why) ==
    /\ pc' = "Exited"
    /\ exitCode' = code
    /\ outcome' = why
    /\ UNCHANGED <<browser, ctxDone>>

counters == <<nLogin, nChecks, nWaits, nReloads, nCommands>>

\* A call on n.page: it counts as made after the cancellation when the
\* context is already cancelled as it starts.
PageCall == afterCancel' = IF ctxDone THEN afterCancel + 1 ELSE afterCancel

\* What the steps of main never touch.
standalone == <<call, ret>>

----------------------------------------------------------------------------
(* runNotifier up to the polling loop                                       *)

\* GetCredentials with the error of getCredentials dropped: the run goes on
\* with what getCredentials returned beside it.
GetCredentials_ErrorIgnored ==
    /\ pc = "Start"
    /\ \E kUser \in KeyringResults("keyring-user"), envUser \in EnvValues("env-user"),
          kPass \in KeyringResults("keyring-pass"), envPass \in EnvValues("env-pass") :
          LET r == getCredentials(kUser, envUser, kPass, envPass)
          IN  /\ credentials' = r.creds
              /\ pc' = "InitBrowser"
              /\ UNCHANGED <<browser, ctxDone, exitCode, outcome>>
    /\ UNCHANGED <<form, config, page, handler, sigChan, status, checkErr, lastErr,
                   nUnknown, stdout, counters, deadline, cancelAt, afterCancel,
                   standalone, arrivedForGood, pageText>>

\* lines 305-311; NewNotifier (lines 314-315) leaves browser and page nil.
GetCredentials ==
    /\ pc = "Start"
    /\ \E kUser \in KeyringResults("keyring-user"), envUser \in EnvValues("env-user"),
          kPass \in KeyringResults("keyring-pass"), envPass \in EnvValues("env-pass") :
          LET r == getCredentials(kUser, envUser, kPass, envPass)
          IN  IF r.err # NoError
              THEN /\ Return(TRUE, "credentials")
                   /\ UNCHANGED credentials
              ELSE /\ credentials' = r.creds
                   /\ pc' = "InitBrowser"
                   /\ UNCHANGED <<browser, ctxDone, exitCode, outcome>>
    /\ UNCHANGED <<form, config, page, handler, sigChan, status, checkErr, lastErr,
                   nUnknown, stdout, counters, deadline, cancelAt, afterCancel,
                   standalone, arrivedForGood, pageText>>

\* Notifier.initializeBrowser and its call, lines 318-320.  Line 136 calls
\* n.page.Timeout(n.config.PageTimeout) and drops the page it returns, the
\* one that would carry the timeout: n.page itself stays without a deadline.
InitializeBrowser ==
    /\ pc = "InitBrowser"
    /\ \E r \in {"launch-panic", "connect-error", "page-panic", "ok"} :
          /\ lastErr' = IF r = "ok" THEN "nil" ELSE r
          /\ CASE r = "launch-panic" ->
                 /\ Panic(browser, "session")
                 /\ UNCHANGED page
            [] r = "connect-error" ->
                 /\ Return(TRUE, "session")
                 /\ UNCHANGED page
            [] r = "page-panic" ->
                 /\ Panic("open", "session")
                 /\ UNCHANGED page
            [] r = "ok" ->
                 /\ browser' = "open"
                 /\ page' = TRUE
                 /\ pc' = "Notify"
                 /\ UNCHANGED <<ctxDone, exitCode, outcome>>
    /\ deadline' = FALSE
    /\ UNCHANGED <<form, config, credentials, handler, sigChan, status, checkErr,
                   nUnknown, stdout, counters, cancelAt, afterCancel,
                   standalone, arrivedForGood, pageText>>

\* lines 322-333: the context, signal.Notify and the goroutine.
InstallSignalHandler ==
    /\ pc = "Notify"
    /\ handler' = "waiting"
    /\ pc' = "Login"
    /\ UNCHANGED <<form, config, credentials, browser, page, sigChan, ctxDone, status,
                   checkErr, lastErr, nUnknown, stdout, exitCode, outcome, counters,
                   deadline, cancelAt, afterCancel, standalone, arrivedForGood, pageText>>

\* What a step of Login leaves alone.
LoginFrame ==
    UNCHANGED <<config, credentials, page, handler, sigChan, status, checkErr, nUnknown,
                stdout, nChecks, nWaits, nReloads, nCommands, deadline, cancelAt,
                standalone, arrivedForGood, pageText>>

\* Login, lines 149-154, and the error return of lines 336-338.
LoginNavigate ==
    /\ pc = "Login"
    /\ nLogin' = nLogin + 1
    /\ \E ok \in BOOLEAN :
          IF ok
          THEN /\ lastErr' = "nil"
               /\ pc' = "Field"
               /\ form' = "email"
               /\ UNCHANGED <<browser, ctxDone, exitCode, outcome>>
          ELSE /\ lastErr' = "navigate"
               /\ Return(TRUE, "login")
               /\ UNCHANGED form
    /\ PageCall
    /\ LoginFrame

\* waitAndSubmit, line 174: MustElement(fieldSelector)
WaitField ==
    /\ pc = "Field"
    /\ \E ok \in BOOLEAN :
          IF ok
          THEN /\ lastErr' = "nil"
               /\ pc' = "Input"
               /\ UNCHANGED <<browser, ctxDone, exitCode, outcome>>
          ELSE /\ lastErr' = "field-panic"
               /\ Panic(browser, "login")
    /\ UNCHANGED <<form, nLogin>>
    /\ PageCall
    /\ LoginFrame

\* FieldInput with the error of field.Input dropped: waitAndSubmit goes on
\* to the button.
FieldInput_ErrorIgnored ==
    /\ pc = "Input"
    /\ \E ok \in BOOLEAN :
          /\ lastErr' = IF ok THEN "nil" ELSE "input"
          /\ pc' = "Button"
          /\ UNCHANGED <<browser, ctxDone, exitCode, outcome>>
    /\ UNCHANGED <<form, nLogin>>
    /\ PageCall
    /\ LoginFrame

\* waitAndSubmit, lines 175-177: field.Input(data)
FieldInput ==
    /\ pc = "Input"
    /\ \E ok \in BOOLEAN :
          IF ok
          THEN /\ lastErr' = "nil"
               /\ pc' = "Button"
               /\ UNCHANGED <<browser, ctxDone, exitCode, outcome>>
          ELSE /\ lastErr' = "input"
               /\ Return(TRUE, "login")
    /\ UNCHANGED <<form, nLogin>>
    /\ PageCall
    /\ LoginFrame

\* waitAndSubmit, line 180: MustElement(buttonSelector)
WaitButton ==
    /\ pc = "Button"
    /\ \E ok \in BOOLEAN :
          IF ok
          THEN /\ lastErr' = "nil"
               /\ pc' = "Click"
               /\ UNCHANGED <<browser, ctxDone, exitCode, outcome>>
          ELSE /\ lastErr' = "button-panic"
               /\ Panic(browser, "login")
    /\ UNCHANGED <<form, nLogin>>
    /\ PageCall
    /\ LoginFrame

\* waitAndSubmit, lines 181-183: button.Click
ButtonClick ==
    /\ pc = "Click"
    /\ \E ok \in BOOLEAN :
          IF ok
          THEN /\ lastErr' = "nil"
               /\ pc' = "WaitNav"
               /\ UNCHANGED <<browser, ctxDone, exitCode, outcome>>
          ELSE /\ lastErr' = "click"
               /\ Return(TRUE, "login")
    /\ UNCHANGED <<form, nLogin>>
    /\ PageCall
    /\ LoginFrame

\* waitAndSubmit, line 186: MustWaitNavigation; then the password form
\* (line 162) or the end of Login (line 166).
WaitNavigation ==
    /\ pc = "WaitNav"
    /\ \E ok \in BOOLEAN :
          IF ok
          THEN /\ lastErr' = "nil"
               /\ IF form = "email"
                  THEN form' = "password" /\ pc' = "Field"
                  ELSE form' = "none" /\ pc' = "LoopTop"
               /\ UNCHANGED <<browser, ctxDone, exitCode, outcome>>
          ELSE /\ lastErr' = "navigation-panic"
               /\ Panic(browser, "login")
               /\ UNCHANGED form
    /\ UNCHANGED nLogin
    /\ PageCall
    /\ LoginFrame

----------------------------------------------------------------------------
(* The polling loop, lines 341-382                                          *)

\* What a step of the loop leaves alone, besides what it names itself.
LoopFrame ==
    UNCHANGED <<form, config, credentials, page, handler, sigChan, nLogin, deadline,
                cancelAt, standalone, arrivedForGood>>

\* LoopTop without the select of lines 342-346: the loop goes straight to the
\* status read.
LoopTop_NoCancelCheck ==
    /\ pc = "LoopTop"
    /\ nChecks < MaxChecks
    /\ nChecks' = nChecks + 1
    /\ pc' = "CheckElement"
    /\ UNCHANGED <<browser, ctxDone, exitCode, outcome>>
    /\ UNCHANGED <<status, checkErr, lastErr, nUnknown, stdout, nWaits, nReloads, nCommands>>
    /\ UNCHANGED <<afterCancel, pageText>>
    /\ LoopFrame

\* lines 342-346: the select at the top of the loop, then the call of
\* CheckOrderStatus on line 348.
LoopTop ==
    /\ pc = "LoopTop"
    /\ IF ctxDone
       THEN /\ Return(FALSE, "cancelled")
            /\ UNCHANGED nChecks
       ELSE /\ nChecks < MaxChecks
            /\ nChecks' = nChecks + 1
            /\ pc' = "CheckElement"
            /\ UNCHANGED <<browser, ctxDone, exitCode, outcome>>
    /\ UNCHANGED <<status, checkErr, lastErr, nUnknown, stdout, nWaits, nReloads, nCommands>>
    /\ UNCHANGED <<afterCancel, pageText>>
    /\ LoopFrame

\* The consecutive Unknown classifications, after a read that returned st
\* and the error flag err.
CountUnknown(st, err) ==
    IF ~err /\ st = OrderStatusUnknown THEN nUnknown + 1 ELSE 0

\* CheckOrderStatus, lines 196-200: page.Element(".schedule-card-label")
CheckElement ==
    /\ pc = "CheckElement"
    /\ pageText' = <<>>
    /\ \E found \in (IF arrivedForGood THEN {TRUE} ELSE BOOLEAN) :
          IF found
          THEN /\ lastErr' = "nil"
               /\ pc' = "CheckText"
               /\ UNCHANGED <<status, checkErr, nUnknown>>
          ELSE /\ lastErr' = "element"
               /\ status' = OrderStatusUnknown
               /\ checkErr' = TRUE
               /\ nUnknown' = CountUnknown(OrderStatusUnknown, TRUE)
               /\ pc' = "Handle"
    /\ UNCHANGED <<browser, ctxDone, exitCode, outcome, stdout, counters>>
    /\ PageCall
    /\ LoopFrame

\* The texts among PageTexts that show the Arrived phrase.
ArrivedTexts == {t \in PageTexts : TrimSpace(t) = string(OrderStatusArrived)}

\* What the status element may hold now.
TextsNow == IF arrivedForGood THEN ArrivedTexts ELSE PageTexts

\* CheckText classifying the text as the element holds it, without
\* strings.TrimSpace.
CheckText_NoTrim ==
    /\ pc = "CheckText"
    /\ \/ /\ ~arrivedForGood
          /\ lastErr' = "text"
          /\ pageText' = <<>>
          /\ status' = OrderStatusUnknown
          /\ checkErr' = TRUE
       \/ \E t \in TextsNow :
             /\ lastErr' = "nil"
             /\ pageText' = t
             /\ status' = textToStatus(t)
             /\ checkErr' = FALSE
    /\ nUnknown' = CountUnknown(status', checkErr')
    /\ pc' = "Handle"
    /\ UNCHANGED <<browser, ctxDone, exitCode, outcome, stdout, counters>>
    /\ PageCall
    /\ LoopFrame

\* CheckOrderStatus, lines 202-213: element.Text(), TrimSpace, textToStatus
CheckText ==
    /\ pc = "CheckText"
    /\ \/ /\ ~arrivedForGood
          /\ lastErr' = "text"
          /\ pageText' = <<>>
          /\ status' = OrderStatusUnknown
          /\ checkErr' = TRUE
       \/ \E t \in TextsNow :
             /\ lastErr' = "nil"
             /\ pageText' = t
             /\ status' = textToStatus(TrimSpace(t))
             /\ checkErr' = FALSE
    /\ nUnknown' = CountUnknown(status', checkErr')
    /\ pc' = "Handle"
    /\ UNCHANGED <<browser, ctxDone, exitCode, outcome, stdout, counters>>
    /\ PageCall
    /\ LoopFrame

\* HandleStatus with a failed read skipping the rest of the iteration, the
\* single-shot exit of lines 366-369 included.
HandleStatus_ErrorSkipsOnce ==
    /\ pc = "Handle"
    /\ IF ~checkErr /\ status = OrderStatusArrived
       THEN /\ stdout' = Append(stdout, "order has arrived")
            /\ IF config.Command # ""
               THEN /\ pc' = "RunCommand"
                    /\ UNCHANGED <<browser, ctxDone, exitCode, outcome>>
               ELSE Return(FALSE, "arrived")
            /\ UNCHANGED nWaits
       ELSE IF config.Once /\ ~checkErr
       THEN /\ stdout' = Append(stdout, "order has not arrived")
            /\ OsExit(1, "not-arrived")
            /\ UNCHANGED nWaits
       ELSE /\ pc' = "Wait"
            /\ nWaits' = nWaits + 1
            /\ UNCHANGED <<browser, ctxDone, exitCode, outcome, stdout>>
    /\ UNCHANGED <<status, checkErr, lastErr, nUnknown, nChecks, nReloads, nCommands>>
    /\ UNCHANGED <<afterCancel, pageText>>
    /\ LoopFrame

\* HandleStatus without the single-shot exit of lines 366-369.
HandleStatus_OnceIgnored ==
    /\ pc = "Handle"
    /\ IF ~checkErr /\ status = OrderStatusArrived
       THEN /\ stdout' = Append(stdout, "order has arrived")
            /\ IF config.Command # ""
               THEN /\ pc' = "RunCommand"
                    /\ UNCHANGED <<browser, ctxDone, exitCode, outcome>>
               ELSE Return(FALSE, "arrived")
            /\ UNCHANGED nWaits
       ELSE /\ pc' = "Wait"
            /\ nWaits' = nWaits + 1
            /\ UNCHANGED <<browser, ctxDone, exitCode, outcome, stdout>>
    /\ UNCHANGED <<status, checkErr, lastErr, nUnknown, nChecks, nReloads, nCommands>>
    /\ UNCHANGED <<afterCancel, pageText>>
    /\ LoopFrame

\* HandleStatus with the error of CheckOrderStatus returned to main instead
\* of logged.
HandleStatus_ReadErrorFatal ==
    /\ pc = "Handle"
    /\ IF checkErr
       THEN /\ Return(TRUE, "check")
            /\ UNCHANGED <<stdout, nWaits>>
       ELSE IF status = OrderStatusArrived
       THEN /\ stdout' = Append(stdout, "order has arrived")
            /\ IF config.Command # ""
               THEN /\ pc' = "RunCommand"
                    /\ UNCHANGED <<browser, ctxDone, exitCode, outcome>>
               ELSE Return(FALSE, "arrived")
            /\ UNCHANGED nWaits
       ELSE IF config.Once
       THEN /\ stdout' = Append(stdout, "order has not arrived")
            /\ OsExit(1, "not-arrived")
            /\ UNCHANGED nWaits
       ELSE /\ pc' = "Wait"
            /\ nWaits' = nWaits + 1
            /\ UNCHANGED <<browser, ctxDone, exitCode, outcome, stdout>>
    /\ UNCHANGED <<status, checkErr, lastErr, nUnknown, nChecks, nReloads, nCommands>>
    /\ UNCHANGED <<afterCancel, pageText>>
    /\ LoopFrame

\* HandleStatus giving up, with an error, on the second Unknown in a row.
HandleStatus_RepeatedUnknownFatal ==
    /\ pc = "Handle"
    /\ IF ~checkErr /\ status = OrderStatusArrived
       THEN /\ stdout' = Append(stdout, "order has arrived")
            /\ IF config.Command # ""
               THEN /\ pc' = "RunCommand"
                    /\ UNCHANGED <<browser, ctxDone, exitCode, outcome>>
               ELSE Return(FALSE, "arrived")
            /\ UNCHANGED nWaits
       ELSE IF config.Once
       THEN /\ stdout' = Append(stdout, "order has not arrived")
            /\ OsExit(1, "not-arrived")
            /\ UNCHANGED nWaits
       ELSE IF nUnknown >= 2
       THEN /\ Return(TRUE, "unknown")
            /\ UNCHANGED <<stdout, nWaits>>
       ELSE /\ pc' = "Wait"
            /\ nWaits' = nWaits + 1
            /\ UNCHANGED <<browser, ctxDone, exitCode, outcome, stdout>>
    /\ UNCHANGED <<status, checkErr, lastErr, nUnknown, nChecks, nReloads, nCommands>>
    /\ UNCHANGED <<afterCancel, pageText>>
    /\ LoopFrame

\* HandleStatus calling CheckOrderStatus again at once after a failed read,
\* without the wait and the reload.
HandleStatus_RetriesRead ==
    /\ pc = "Handle"
    /\ IF ~checkErr /\ status = OrderStatusArrived
       THEN /\ stdout' = Append(stdout, "order has arrived")
            /\ IF config.Command # ""
               THEN /\ pc' = "RunCommand"
                    /\ UNCHANGED <<browser, ctxDone, exitCode, outcome>>
               ELSE Return(FALSE, "arrived")
            /\ UNCHANGED <<nWaits, nChecks>>
       ELSE IF checkErr /\ nChecks < MaxChecks
       THEN /\ pc' = "CheckElement"
            /\ nChecks' = nChecks + 1
            /\ UNCHANGED <<browser, ctxDone, exitCode, outcome, stdout, nWaits>>
       ELSE IF config.Once
       THEN /\ stdout' = Append(stdout, "order has not arrived")
            /\ OsExit(1, "not-arrived")
            /\ UNCHANGED <<nWaits, nChecks>>
       ELSE /\ pc' = "Wait"
            /\ nWaits' = nWaits + 1
            /\ UNCHANGED <<browser, ctxDone, exitCode, outcome, stdout, nChecks>>
    /\ UNCHANGED <<status, checkErr, lastErr, nUnknown, nReloads, nCommands>>
    /\ UNCHANGED <<afterCancel, pageText>>
    /\ LoopFrame

\* HandleStatus running the post-arrival command whether or not one is
\* configured.
HandleStatus_CommandUnconditional ==
    /\ pc = "Handle"
    /\ IF ~checkErr /\ status = OrderStatusArrived
       THEN /\ stdout' = Append(stdout, "order has arrived")
            /\ pc' = "RunCommand"
            /\ UNCHANGED <<browser, ctxDone, exitCode, outcome>>
            /\ UNCHANGED nWaits
       ELSE IF config.Once
       THEN /\ stdout' = Append(stdout, "order has not arrived")
            /\ OsExit(1, "not-arrived")
            /\ UNCHANGED nWaits
       ELSE /\ pc' = "Wait"
            /\ nWaits' = nWaits + 1
            /\ UNCHANGED <<browser, ctxDone, exitCode, outcome, stdout>>
    /\ UNCHANGED <<status, checkErr, lastErr, nUnknown, nChecks, nReloads, nCommands>>
    /\ UNCHANGED <<afterCancel, pageText>>
    /\ LoopFrame

\* HandleStatus looking at the cancellation before it looks at the status.
HandleStatus_CancelFirst ==
    /\ pc = "Handle"
    /\ IF ctxDone
       THEN /\ Return(FALSE, "cancelled")
            /\ UNCHANGED <<stdout, nWaits>>
       ELSE IF ~checkErr /\ status = OrderStatusArrived
       THEN /\ stdout' = Append(stdout, "order has arrived")
            /\ IF config.Command # ""
               THEN /\ pc' = "RunCommand"
                    /\ UNCHANGED <<browser, ctxDone, exitCode, outcome>>
               ELSE Return(FALSE, "arrived")
            /\ UNCHANGED nWaits
       ELSE IF config.Once
       THEN /\ stdout' = Append(stdout, "order has not arrived")
            /\ OsExit(1, "not-arrived")
            /\ UNCHANGED nWaits
       ELSE /\ pc' = "Wait"
            /\ nWaits' = nWaits + 1
            /\ UNCHANGED <<browser, ctxDone, exitCode, outcome, stdout>>
    /\ UNCHANGED <<status, checkErr, lastErr, nUnknown, nChecks, nReloads, nCommands>>
    /\ UNCHANGED <<afterCancel, pageText>>
    /\ LoopFrame

\* lines 349-371: what runNotifier does with the result of the status read.
HandleStatus ==
    /\ pc = "Handle"
    /\ IF ~checkErr /\ status = OrderStatusArrived
       THEN /\ stdout' = Append(stdout, "order has arrived")
            /\ IF config.Command # ""
               THEN /\ pc' = "RunCommand"
                    /\ UNCHANGED <<browser, ctxDone, exitCode, outcome>>
               ELSE Return(FALSE, "arrived")
            /\ UNCHANGED nWaits
       ELSE IF config.Once
       THEN /\ stdout' = Append(stdout, "order has not arrived")
            /\ OsExit(1, "not-arrived")
            /\ UNCHANGED nWaits
       ELSE /\ pc' = "Wait"
            /\ nWaits' = nWaits + 1
            /\ UNCHANGED <<browser, ctxDone, exitCode, outcome, stdout>>
    /\ UNCHANGED <<status, checkErr, lastErr, nUnknown, nChecks, nReloads, nCommands>>
    /\ UNCHANGED <<afterCancel, pageText>>
    /\ LoopFrame

\* RunCommand with the error of cmd.Run returned instead of logged.
RunCommand_FailureFatal ==
    /\ pc = "RunCommand"
    /\ \E ok \in BOOLEAN :
          /\ lastErr' = IF ok THEN "nil" ELSE "command"
          /\ nCommands' = nCommands + 1
          /\ Return(~ok, "arrived")
    /\ UNCHANGED <<status, checkErr, nUnknown, stdout, nLogin, nChecks, nWaits, nReloads>>
    /\ UNCHANGED <<form, config, credentials, page, handler, sigChan, deadline, cancelAt,
                   afterCancel, standalone, arrivedForGood, pageText>>

\* lines 357-362: cmd.Run of the post-arrival command; its error is logged.
RunCommand ==
    /\ pc = "RunCommand"
    /\ \E ok \in BOOLEAN :
          /\ lastErr' = IF ok THEN "nil" ELSE "command"
          /\ nCommands' = nCommands + 1
          /\ Return(FALSE, "arrived")
    /\ UNCHANGED <<status, checkErr, nUnknown, stdout, nLogin, nChecks, nWaits, nReloads>>
    /\ UNCHANGED <<form, config, credentials, page, handler, sigChan, deadline, cancelAt,
                   afterCancel, standalone, arrivedForGood, pageText>>

\* WaitCancelled returning ctx.Err() instead of nil.
WaitCancelled_ReturnsError ==
    /\ pc = "Wait"
    /\ ctxDone
    /\ Return(TRUE, "cancelled")
    /\ UNCHANGED <<status, checkErr, lastErr, nUnknown, stdout, nChecks, nWaits, nReloads,
                   nCommands>>
    /\ UNCHANGED <<afterCancel, pageText>>
    /\ LoopFrame

\* lines 373-375: the select of the wait takes <-ctx.Done()
WaitCancelled ==
    /\ pc = "Wait"
    /\ ctxDone
    /\ Return(FALSE, "cancelled")
    /\ UNCHANGED <<status, checkErr, lastErr, nUnknown, stdout, nChecks, nWaits, nReloads,
                   nCommands>>
    /\ UNCHANGED <<afterCancel, pageText>>
    /\ LoopFrame

\* lines 373-377: the select of the wait takes <-time.After(...); when both
\* channels are ready the select picks either.
WaitTimer ==
    /\ pc = "Wait"
    /\ pc' = "Refresh"
    /\ UNCHANGED <<browser, ctxDone, exitCode, outcome, status, checkErr, lastErr, nUnknown,
                   stdout, nChecks, nWaits, nReloads, nCommands>>
    /\ UNCHANGED <<afterCancel, pageText>>
    /\ LoopFrame

\* Refresh with the error of page.Reload returned by runNotifier instead of
\* logged.
Refresh_ErrorFatal ==
    /\ pc = "Refresh"
    /\ \E ok \in BOOLEAN :
          /\ lastErr' = IF ok THEN "nil" ELSE "reload"
          /\ nReloads' = nReloads + 1
          /\ IF ok
             THEN /\ pc' = "LoopTop"
                  /\ UNCHANGED <<browser, ctxDone, exitCode, outcome>>
             ELSE Return(TRUE, "session")
    /\ UNCHANGED <<status, checkErr, nUnknown, stdout, nChecks, nWaits, nCommands, pageText>>
    /\ PageCall
    /\ LoopFrame

\* Notifier.Refresh and lines 379-381: the error of page.Reload is logged.
Refresh ==
    /\ pc = "Refresh"
    /\ \E ok \in BOOLEAN :
          /\ lastErr' = IF ok THEN "nil" ELSE "reload"
          /\ nReloads' = nReloads + 1
          /\ pc' = "LoopTop"
    /\ UNCHANGED <<browser, ctxDone, exitCode, outcome, status, checkErr, nUnknown, stdout,
                   nChecks, nWaits, nCommands, pageText>>
    /\ PageCall
    /\ LoopFrame

\* The positions at which the orchestrator's next step is a call on n.page.
PageCallPcs ==
    {"Login", "Field", "Input", "Button", "Click", "WaitNav", "CheckElement",
     "CheckText", "Refresh"}

\* Where the orchestrator stays when the call it made at p never returns.
BlockedAt(p) ==
    IF p \in {"CheckElement", "CheckText"} THEN "CheckBlocked"
    ELSE IF p = "Refresh" THEN "RefreshBlocked"
    ELSE "LoginBlocked"

\* A call on n.page waits for something that never comes (the element never
\* appears, the page never finishes loading).  With a deadline on n.page the
\* call gives up when it expires and fails, which is the failing result of
\* the steps above; without one the call never returns.
PageCallBlocks ==
    /\ pc \in PageCallPcs
    /\ ~deadline
    /\ pc' = BlockedAt(pc)
    /\ PageCall
    /\ UNCHANGED <<form, config, credentials, browser, page, handler, sigChan, ctxDone,
                   status, checkErr, lastErr, nUnknown, stdout, exitCode, outcome,
                   counters, deadline, cancelAt, standalone, arrivedForGood, pageText>>

\* The order is delivered while the run polls: from now on the page has
\* the status element and it shows the Arrived phrase.
OrderArrives ==
    /\ pc \in {"LoopTop", "CheckElement", "CheckText", "Handle", "Wait", "Refresh"}
    /\ ~arrivedForGood
    /\ arrivedForGood' = TRUE
    /\ UNCHANGED <<pc, form, config, credentials, browser, page, handler, sigChan, ctxDone,
                   status, checkErr, lastErr, nUnknown, stdout, exitCode, outcome,
                   counters, deadline, cancelAt, afterCancel, pageText, standalone>>

----------------------------------------------------------------------------
(* Signals                                                                  *)

\* SIGINT or SIGTERM reaches the process.  Before signal.Notify (line 327)
\* the runtime's default disposition ends the process; after it the signal
\* is put into sigChan unless its one-slot buffer is full.
Signal ==
    /\ Running
    /\ IF handler = "none"
       THEN /\ pc' = "Killed"
            /\ outcome' = "signal"
            /\ UNCHANGED sigChan
       ELSE /\ sigChan' = 1
            /\ UNCHANGED <<pc, outcome>>
    /\ UNCHANGED <<form, config, credentials, browser, page, handler, ctxDone, status,
                   checkErr, lastErr, nUnknown, stdout, exitCode, counters, deadline,
                   cancelAt, afterCancel, standalone, arrivedForGood, pageText>>

\* SignalHandler closing the browser session itself before it cancels.
SignalHandler_ClosesBrowser ==
    /\ Running
    /\ handler = "waiting"
    /\ sigChan = 1
    /\ sigChan' = 0
    /\ ctxDone' = TRUE
    /\ handler' = "done"
    /\ cancelAt' = pc
    /\ browser' = Close(browser)
    /\ UNCHANGED <<pc, form, config, credentials, page, status, checkErr,
                   lastErr, nUnknown, stdout, exitCode, outcome, counters, deadline,
                   afterCancel, standalone, arrivedForGood, pageText>>

\* SignalHandler ending the process itself, with os.Exit(0), instead of
\* cancelling the context.
SignalHandler_Exits ==
    /\ Running
    /\ handler = "waiting"
    /\ sigChan = 1
    /\ sigChan' = 0
    /\ handler' = "done"
    /\ cancelAt' = pc
    /\ OsExit(0, "cancelled")
    /\ UNCHANGED <<form, config, credentials, page, status, checkErr,
                   lastErr, nUnknown, stdout, counters, deadline,
                   afterCancel, standalone, arrivedForGood, pageText>>

\* lines 329-333: the goroutine receives from sigChan and calls cancel().
SignalHandler ==
    /\ Running
    /\ handler = "waiting"
    /\ sigChan = 1
    /\ sigChan' = 0
    /\ ctxDone' = TRUE
    /\ handler' = "done"
    /\ cancelAt' = pc
    /\ UNCHANGED <<pc, form, config, credentials, browser, page, status, checkErr,
                   lastErr, nUnknown, stdout, exitCode, outcome, counters, deadline,
                   afterCancel, standalone, arrivedForGood, pageText>>

----------------------------------------------------------------------------

\* The steps of the orchestrator thread.
Orchestrator ==
    \/ GetCredentials
    \/ InitializeBrowser
    \/ InstallSignalHandler
    \/ LoginNavigate
    \/ WaitField
    \/ FieldInput
    \/ WaitButton
    \/ ButtonClick
    \/ WaitNavigation
    \/ LoopTop
    \/ CheckElement
    \/ CheckText
    \/ HandleStatus
    \/ RunCommand
    \/ WaitCancelled
    \/ WaitTimer
    \/ Refresh

Next ==
    \/ Orchestrator
    \/ PageCallBlocks
    \/ OrderArrives
    \/ Signal
    \/ SignalHandler

Spec == Init /\ [][Next]_vars

\* The runs in which every call the orchestrator makes returns.
ReturningNext ==
    \/ Orchestrator
    \/ OrderArrives
    \/ Signal
    \/ SignalHandler

\* The orchestrator thread and the signal goroutine are scheduled, and every
\* call the orchestrator makes returns.
FairSpec == Init /\ [][ReturningNext]_vars /\ WF_vars(Orchestrator) /\ WF_vars(SignalHandler)

TypeOK ==
    /\ pc \in {"Start", "InitBrowser", "Notify", "Login", "Field", "Input", "Button",
               "Click", "WaitNav", "LoopTop", "CheckElement", "CheckText", "Handle",
               "RunCommand", "Wait", "Refresh", "Exited", "Killed", "LoginBlocked",
               "CheckBlocked", "RefreshBlocked"}
    /\ form \in {"none", "email", "password"}
    /\ config \in Configs
    /\ browser \in {"nil", "open", "closed"}
    /\ page \in BOOLEAN
    /\ handler \in {"none", "waiting", "done"}
    /\ sigChan \in {0, 1}
    /\ ctxDone \in BOOLEAN
    /\ status \in OrderStatuses
    /\ checkErr \in BOOLEAN
    /\ lastErr \in {"nil", "launch-panic", "connect-error", "page-panic", "navigate",
                    "field-panic", "input", "button-panic", "click", "navigation-panic",
                    "element", "text", "command", "reload"}
    /\ credentials \in [Username : {"", "keyring-user", "env-user"},
                         Password : {"", "keyring-pass", "env-pass"}]
    /\ stdout \in {<<>>, <<"order has arrived">>, <<"order has not arrived">>}
    /\ exitCode \in {-1, 0, 1, 2}
    /\ Running <=> exitCode = -1 /\ outcome = "running"
    /\ outcome \in {"running", "credentials", "session", "login", "cancelled", "arrived",
                    "not-arrived", "signal"}
    /\ nLogin \in 0..1
    /\ nChecks \in 0..MaxChecks
    /\ nUnknown \in 0..nChecks
    /\ nWaits \in 0..nChecks
    /\ nReloads \in 0..nWaits
    /\ nCommands \in 0..1
    /\ deadline \in BOOLEAN
    /\ cancelAt \in {""} \cup {"Login", "Field", "Input", "Button", "Click", "WaitNav",
                              "LoopTop", "CheckElement", "CheckText", "Handle",
                              "RunCommand", "Wait", "Refresh", "LoginBlocked",
                              "CheckBlocked", "RefreshBlocked"}
    /\ cancelAt # "" <=> handler = "done"
    /\ afterCancel \in 0..(1 + 2 * 5)
    /\ pageText \in PageTexts \cup {<<>>}
    /\ arrivedForGood \in BOOLEAN
    /\ call = NoCall
    /\ ret = NoReturn

----------------------------------------------------------------------------
(* Properties                                                               *)

\* The process has ended by its own exit (a return of main, os.Exit or an
\* unrecovered panic), as opposed to being ended by an unhandled signal.
Exited == pc = "Exited"

\* The polling loop has been entered: Login returned nil.
PastLogin ==
    \/ pc \in {"LoopTop", "CheckElement", "CheckText", "Handle", "RunCommand", "Wait",
               "Refresh", "CheckBlocked", "RefreshBlocked"}
    \/ Exited /\ outcome \in {"cancelled", "arrived", "not-arrived"}

\* The latest status read did not classify the order as Arrived.
NotArrived == checkErr \/ status # OrderStatusArrived

\* C1: on every exit path of a run that opened a browser session, the
\* session is closed before the process terminates: no exited state has the
\* session still open.
C1_SessionClosedOnExit == Exited => browser # "open"

\* The orchestrator is at one of its two cancellation checks: the select at
\* the top of the loop, or the select of the inter-poll wait.
AtCancelCheck == pc \in {"LoopTop", "Wait"}

\* A signal has reached the process since signal.Notify: it is in sigChan,
\* or the goroutine has taken it from there.
SignalDelivered == sigChan = 1 \/ handler = "done"

\* From here on no status read is started or acted on, and the run can only
\* have ended by returning nil on a cancellation branch, with exit status 0.
NoReadAndSuccess ==
    /\ pc \notin {"CheckElement", "CheckText", "Handle", "RunCommand"}
    /\ ~Running => (Exited /\ exitCode = 0 /\ outcome = "cancelled")

\* The step the orchestrator takes from a cancellation check when it finds
\* the run cancelled: it returns nil, or, in the wait, its select picks the
\* timer that is ready as well and the reload follows.
CancelStep ==
    \/ Exited' /\ exitCode' = 0 /\ outcome' = "cancelled"
    \/ pc = "Wait" /\ pc' = "Refresh"

\* C2 as stated: once the signal has been delivered while the orchestrator
\* is in the inter-poll wait or at the top of a loop iteration, its next step
\* is not the start of a status read, no status read is started after that
\* point, and the run terminates with success.
C2_SignalEndsRun ==
    /\ [][(SignalDelivered /\ AtCancelCheck /\ pc' # pc) => CancelStep]_vars
    /\ []((SignalDelivered /\ AtCancelCheck) => []NoReadAndSuccess)
    /\ (SignalDelivered /\ AtCancelCheck) ~> (Exited /\ exitCode = 0)

\* C2 as amended: once the goroutine of lines 329-333 has received the
\* signal and cancelled the context while the orchestrator is in the
\* inter-poll wait or at the top of a loop iteration, its next step is not
\* the start of a status read, no status read is started after that point,
\* and the run terminates with success.
C2_CancelEndsRun ==
    /\ [][(ctxDone /\ AtCancelCheck /\ pc' # pc) => CancelStep]_vars
    /\ []((ctxDone /\ AtCancelCheck) => []NoReadAndSuccess)
    /\ (ctxDone /\ AtCancelCheck) ~> (Exited /\ exitCode = 0)

\* C2 happens: a run cancelled during the wait after a status read has ended.
C2_Witness ==
    /\ Exited
    /\ outcome = "cancelled"
    /\ nWaits = 1
    /\ nChecks = 1
    /\ nReloads = 0

\* C3: once a status read has classified the order as Arrived and the
\* orchestrator has acted on it, the arrival notice is the one line printed,
\* the configured command (if any) is run next, exactly once, and the run
\* ends with exit status 0 whether that command succeeded or failed.
C3_ArrivedEndsWithSuccess ==
    (~checkErr /\ status = OrderStatusArrived /\ pc # "Handle") =>
        /\ stdout = <<"order has arrived">>
        /\ pc \in {"RunCommand", "Exited"}
        /\ pc = "RunCommand" => (config.Command # "" /\ nCommands = 0)
        /\ Exited => /\ exitCode = 0
                     /\ outcome = "arrived"
                     /\ nCommands = (IF config.Command # "" THEN 1 ELSE 0)

\* C3 happens: the order arrived, the command was run and failed, the run ended.
C3_Witness ==
    /\ Exited
    /\ ~checkErr /\ status = OrderStatusArrived
    /\ ~config.Once
    /\ nCommands = 1
    /\ lastErr = "command"

\* The latest call of CheckOrderStatus has returned and runNotifier has
\* acted on its result.
CheckHandled ==
    nChecks >= 1 /\ pc \notin {"CheckElement", "CheckText", "Handle", "CheckBlocked"}

\* C4: in single-shot mode, once a status check with any outcome other than
\* Arrived (Placed, Preparing, Unknown, or a failed read) has been acted on,
\* the process has printed "order has not arrived" and has exited with
\* status 1; it is not waiting or looping.
C4_OnceNotArrivedExitsOne ==
    (config.Once /\ CheckHandled /\ NotArrived) =>
        /\ Exited
        /\ exitCode = 1
        /\ outcome = "not-arrived"
        /\ stdout = <<"order has not arrived">>

\* C4 happens: a single-shot run read Preparing and has ended.
C4_Witness ==
    /\ config.Once
    /\ Exited
    /\ nChecks = 1
    /\ ~checkErr /\ status = OrderStatusPreparing

\* C5 as stated: a single-shot run that got past login has performed exactly
\* one status check when it exits, and never waited or reloaded.
C5_ExactlyOneCheck ==
    (config.Once /\ Exited /\ PastLogin) =>
        (nChecks = 1 /\ nWaits = 0 /\ nReloads = 0)

\* C5 as amended: a single-shot run that got past login performs at most one
\* status check; it exits with exactly one check made, or with none when the
\* select at the top of the loop found the run cancelled before the first
\* check; it never enters the inter-poll wait, never reloads the page and
\* never comes back to the top of the loop after its check.
C5_AtMostOneCheck ==
    (config.Once /\ PastLogin) =>
        /\ nChecks <= 1
        /\ nWaits = 0 /\ nReloads = 0
        /\ pc \notin {"Wait", "Refresh"}
        /\ nChecks = 1 => pc # "LoopTop"
        /\ Exited => (nChecks = 1 \/ (nChecks = 0 /\ outcome = "cancelled"))
        /\ CheckHandled => pc \in {"RunCommand", "Exited"}

\* C5 happens: a single-shot run made its one check, found Arrived, and ended.
C5_Witness ==
    /\ config.Once
    /\ Exited
    /\ PastLogin
    /\ nChecks = 1
    /\ outcome = "arrived"

\* A looping-mode run holds the result of a failed status read and is about
\* to act on it.
FailedReadLooping == pc = "Handle" /\ checkErr /\ ~config.Once

NotArrivedLooping ==
    /\ pc = "Handle"
    /\ ~checkErr
    /\ status \in {OrderStatusPlaced, OrderStatusPreparing, OrderStatusUnknown}
    /\ ~config.Once

\* C7: in looping mode a read classified Placed, Preparing or Unknown keeps
\* the run polling: the orchestrator's next step enters the inter-poll wait,
\* however many Unknown classifications came in a row, and a run whose
\* latest read was such a one has ended only if it was cancelled.
C7_NotArrivedKeepsPolling ==
    /\ [][(NotArrivedLooping /\ pc' # pc) => (pc' = "Wait" /\ outcome' = "running")]_vars
    /\ []((~config.Once /\ nChecks >= 1 /\ ~checkErr /\ status # OrderStatusArrived
           /\ ~Running) => outcome = "cancelled")

\* C7 happens: every read the bound allows was classified Unknown, and the
\* run is waiting again.
C7_Witness ==
    /\ ~config.Once
    /\ pc = "Wait"
    /\ nUnknown = MaxChecks

\* The orchestrator is inside Login.
InLogin == pc \in {"Login", "Field", "Input", "Button", "Click", "WaitNav"}

\* C8: Login is called at most once per run and before any status read,
\* wait or reload; a step of it that fails (navigation, a missing field or
\* button, input, click, the wait for navigation) ends the run at once with a
\* non-zero exit status, and a run ended by a login failure has performed no
\* status read, no wait and no reload.
C8_LoginOnceAndFatal ==
    /\ [](nLogin <= 1)
    /\ []((nChecks >= 1 \/ nWaits >= 1 \/ nReloads >= 1) =>
            (nLogin = 1 /\ ~InLogin /\ outcome # "login"))
    /\ [][(InLogin /\ pc' # pc /\ lastErr' # "nil") =>
            (Exited' /\ exitCode' \in {1, 2} /\ outcome' = "login")]_vars
    /\ [](outcome = "login" =>
            (Exited /\ exitCode # 0 /\ nLogin = 1
             /\ nChecks = 0 /\ nWaits = 0 /\ nReloads = 0))

\* C8 happens: the password field was not found, and the run has ended.
C8_Witness ==
    /\ Exited
    /\ outcome = "login"
    /\ form = "password"
    /\ lastErr = "field-panic"

\* C9: the run resolves credentials, then opens the session, then logs in,
\* then polls; a failed credential resolution ends the run with a non-zero
\* exit status and no session ever opened, and a failed session opening ends
\* it with a non-zero exit status and no login attempted.
C9_StartupOrder ==
    /\ browser # "nil" => credentials # NoCredentials
    /\ nLogin >= 1 => (credentials # NoCredentials /\ browser # "nil" /\ page)
    /\ nChecks >= 1 => (nLogin = 1 /\ ~InLogin)
    /\ (credentials = NoCredentials /\ Running) => pc = "Start"
    /\ (credentials = NoCredentials /\ Exited) => outcome = "credentials"
    /\ outcome = "credentials" =>
          (Exited /\ exitCode # 0 /\ browser = "nil" /\ ~page /\ nLogin = 0 /\ nChecks = 0)
    /\ lastErr \in {"launch-panic", "connect-error", "page-panic"} => outcome = "session"
    /\ outcome = "session" =>
          (Exited /\ exitCode # 0 /\ browser # "open" /\ nLogin = 0 /\ nChecks = 0)

\* C9 happens: the connection to the browser failed, and the run has ended.
C9_Witness ==
    /\ Exited
    /\ outcome = "session"
    /\ lastErr = "connect-error"
    /\ exitCode = 1

\* C10: the exit status is 0 exactly when the run ended by detecting Arrived
\* or by cancellation, and 1 for every other way the process exits; no other
\* exit status is produced.
C10_ExitCodes ==
    Exited =>
        /\ exitCode \in {0, 1}
        /\ exitCode = 0 <=> outcome \in {"arrived", "cancelled"}

\* C11 as stated: once the context is cancelled, at most one further call
\* on the page is made before the run ends.
C11_OneMorePageAction == afterCancel <= 1

\* The positions of the five page calls of waitAndSubmit, and of the two of
\* CheckOrderStatus.
SubmitPcs == {"Field", "Input", "Button", "Click", "WaitNav"}
CheckPcs == {"CheckElement", "CheckText"}

\* The page calls of one Login: the navigation, then waitAndSubmit for the
\* email form and for the password form.
CallsOfLogin == Cardinality({"Login"}) + Cardinality({"email", "password"} \X SubmitPcs)

\* The most page calls the orchestrator still makes when cancel() is called
\* while it is at p: cancellation is looked at only by the select at the top
\* of the loop and by the select of the wait, and the latter may take its
\* timer, after which the reload is made.
CallsAfterCancelAt(p) ==
    IF p \in {"Login"} \cup SubmitPcs THEN CallsOfLogin
    ELSE IF p \in CheckPcs THEN Cardinality(CheckPcs) + 1
    ELSE IF p \in {"Handle", "Wait", "Refresh"} THEN 1
    ELSE 0

\* C11 as amended: after cancel() no status read is started; the select at
\* the top of the loop then ends the run with success and no page call is
\* made from there; until that select or the one of the wait is reached the
\* page calls of the Login or status read in progress are all still made, and
\* a reload may follow the wait, so that up to eleven page calls (a whole
\* Login) can follow the cancellation.
C11_CancelHonouredAtChecks ==
    /\ [][ctxDone => nChecks' = nChecks]_vars
    /\ [][(ctxDone /\ pc = "LoopTop" /\ pc' # pc) =>
            (Exited' /\ exitCode' = 0 /\ afterCancel' = afterCancel)]_vars
    /\ [](cancelAt # "" => afterCancel <= CallsAfterCancelAt(cancelAt))
    /\ [](cancelAt = "" => afterCancel = 0)

\* C11 happens: cancel() was called as Login started, every page call of
\* Login was still made, and the run ended at the top of the loop.
C11_Witness ==
    /\ cancelAt = "Login"
    /\ afterCancel = CallsOfLogin
    /\ Exited
    /\ outcome = "cancelled"
    /\ nChecks = 0

\* C12: the calls on the page are bounded by the configured page timeout;
\* in particular a status read of a page whose status element never appears
\* returns (with an error) and never blocks for good.
C12_StatusReadReturns == pc # "CheckBlocked"

\* The step of the signal goroutine: it takes the signal from sigChan.
SignalTaskStep == handler = "waiting" /\ handler' = "done"

\* C13: no browser session exists before initializeBrowser succeeds (a new
\* Notifier has neither browser nor page); a session is opened only by
\* initializeBrowser, once, and never again after it was closed, so at most
\* one exists at any time; and every step that opens, closes or calls the
\* session is a step of the orchestrator, never the step of the signal
\* goroutine.
C13_OneSessionOrchestratorOnly ==
    /\ [](pc \in {"Start", "InitBrowser"} => (browser = "nil" /\ ~page))
    /\ [](page => browser # "nil")
    /\ [][(browser' = "open" /\ browser # "open") =>
            (browser = "nil" /\ pc = "InitBrowser" /\ pc' = "Notify")]_vars
    /\ [][browser # "nil" => browser' # "nil"]_vars
    /\ [][browser = "closed" => browser' = "closed"]_vars
    /\ [][SignalTaskStep =>
            UNCHANGED <<pc, browser, page, lastErr, status, checkErr, afterCancel,
                        nLogin, nChecks, nReloads>>]_vars
    /\ [][(browser' # browser \/ page' # page) => (pc' # pc /\ ~SignalTaskStep)]_vars

\* C13 happens: the signal goroutine has done its step while the session was
\* open, and the session is still open and in use by the orchestrator.
C13_Witness ==
    /\ handler = "done"
    /\ browser = "open"
    /\ page
    /\ pc = "CheckText"

\* C14: in looping mode every status read but the first comes after exactly
\* one entry into the wait and exactly one reload attempt made since the
\* read before it, the wait first and the reload second; a failed read is
\* not retried within the tick; and no reload is made before the first read.
C14_OneReadWaitReloadPerTick ==
    /\ [](~config.Once =>
            /\ nChecks = 0 => (nWaits = 0 /\ nReloads = 0)
            /\ pc \in {"CheckElement", "CheckText", "Handle", "CheckBlocked"} =>
                  (nWaits = nChecks - 1 /\ nReloads = nChecks - 1)
            /\ pc \in {"Wait", "Refresh", "RefreshBlocked"} =>
                  (nWaits = nChecks /\ nReloads = nChecks - 1)
            /\ pc = "LoopTop" => (nWaits = nChecks /\ nReloads = nChecks))
    /\ [][(~config.Once /\ nChecks' # nChecks) =>
            (nChecks' = nChecks + 1 /\ pc = "LoopTop" /\ nWaits = nChecks /\ nReloads = nChecks)]_vars
    /\ [][(~config.Once /\ nReloads' # nReloads) =>
            (nReloads' = nReloads + 1 /\ nWaits = nReloads + 1 /\ nChecks = nWaits)]_vars

\* C14 happens: the third status read of a looping run is starting, after
\* two waits and two reloads.
C14_Witness ==
    /\ ~config.Once
    /\ pc = "CheckElement"
    /\ nChecks = 3
    /\ nWaits = 2
    /\ nReloads = 2

\* C15 as stated: when the context is cancelled during the inter-poll wait,
\* the orchestrator's next step ends the run with success and without a
\* reload, also when the timer of the wait is ready as well.
C15_CancelledWaitNeverReloads ==
    [][(cancelAt = "Wait" /\ pc = "Wait" /\ pc' # pc) =>
         (Exited' /\ exitCode' = 0 /\ pc' # "Refresh" /\ nReloads' = nReloads)]_vars

\* C15 as amended: when the context is cancelled during the inter-poll wait,
\* the select of the wait takes either of its ready branches: the run
\* returns nil at once, or, with the timer ready as well, the page is
\* reloaded once and the run returns nil at the top of the loop.  Either way
\* no status read follows, the run can end only with success, and it ends.
C15_CancelledWaitEndsRun ==
    /\ [][(cancelAt = "Wait" /\ pc = "Wait" /\ pc' # pc) => CancelStep]_vars
    /\ [][cancelAt = "Wait" => nChecks' = nChecks]_vars
    /\ [](cancelAt = "Wait" =>
            /\ pc \in {"Wait", "Refresh", "RefreshBlocked", "LoopTop", "Exited"}
            /\ afterCancel <= 1
            /\ afterCancel = 1 => nReloads = nWaits \/ pc = "RefreshBlocked"
            /\ Exited => (exitCode = 0 /\ outcome = "cancelled"))
    /\ (cancelAt = "Wait") ~> (Exited /\ exitCode = 0)

\* C15 happens: the context was cancelled during the wait, the select took
\* the timer, the page was reloaded, and the run ended at the top of the loop.
C15_Witness ==
    /\ cancelAt = "Wait"
    /\ Exited
    /\ exitCode = 0
    /\ afterCancel = 1
    /\ nReloads = nWaits
    /\ lastErr = "reload"

\* C16: the step of the signal goroutine takes the signal from sigChan and
\* sets the cancellation flag, and changes nothing else: not the session, the
\* configuration, the credentials, the last status read or where the
\* orchestrator is.  The flag is never reset, and while the process runs
\* nothing but that step sets it.
C16_SignalTaskOnlyCancels ==
    /\ [][SignalTaskStep =>
            /\ sigChan = 1 /\ sigChan' = 0
            /\ ctxDone'
            /\ UNCHANGED <<pc, form, config, credentials, browser, page, deadline, status,
                           checkErr, lastErr, nUnknown, stdout, exitCode, outcome,
                           counters, afterCancel>>]_vars
    /\ [][ctxDone => ctxDone']_vars
    /\ [][(~ctxDone /\ ctxDone') => (SignalTaskStep \/ Exited')]_vars

\* C16 happens: the signal goroutine cancelled the context while the
\* orchestrator held the result of a status read, which is still there.
C16_Witness ==
    /\ handler = "done"
    /\ ctxDone
    /\ cancelAt = "Handle"
    /\ pc = "Handle"
    /\ ~checkErr /\ status = OrderStatusPreparing
    /\ browser = "open"

\* C17: whenever a looping-mode run is in the inter-poll wait its poll
\* interval is strictly positive: a run with --check-interval <= 0 and
\* without --once never gets there.
C17_PositiveIntervalInWait ==
    (~config.Once /\ pc = "Wait") => config.Interval > 0

----------------------------------------------------------------------------
(* The functions of src/main.go called on their own: the call is chosen    *)
(* from a bounded set of arguments, and a step makes it and keeps what it  *)
(* returned.                                                                *)

\* The three phrases textToStatus knows.
Phrases == {string(OrderStatusPlaced), string(OrderStatusPreparing), string(OrderStatusArrived)}

\* unicode.ToLower on the upper-case letters of the phrases
ToLower(c) ==
    CASE c = "O" -> "o" [] c = "P" -> "p" [] c = "A" -> "a" [] c = "Y" -> "y"
      [] OTHER -> c

\* strings.ToLower
LowerCase(s) == [i \in 1..Len(s) |-> ToLower(s[i])]

\* s with the character c put in before position k
InsertAt(s, k, c) == SubSeq(s, 1, k - 1) \o <<c>> \o SubSeq(s, k, Len(s))

\* Characters that are not part of any phrase: a control character and a
\* letter outside ASCII.
OddChars == {"\r", "é"}

\* Texts textToStatus is called with: each phrase, and each phrase in lower
\* case, between white space, cut short, followed by more text, repeated,
\* and with an odd character in it.
StatusTexts ==
    Phrases
    \cup {OrderStatusUnknown, <<>>}
    \cup {LowerCase(p) : p \in Phrases}
    \cup {<<" ">> \o p : p \in Phrases}
    \cup {p \o <<" ">> : p \in Phrases}
    \cup {<<"\n">> \o p \o <<"\t">> : p \in Phrases}
    \cup UNION {{SubSeq(p, 1, k) : k \in 0..(Len(p) - 1)} : p \in Phrases}
    \cup {p \o <<"!">> : p \in Phrases}
    \cup {p \o p : p \in Phrases}
    \cup UNION {{InsertAt(p, k, c) : k \in 1..(Len(p) + 1), c \in OddChars} : p \in Phrases}

\* The flags of main at their defaults.
DefaultConfig == [Once |-> FALSE, Command |-> "", Interval |-> 30]

\* slog.Level: the levels of log/slog
LevelDebug == -4
LevelInfo == 0
LevelWarn == 4
LevelError == 8

\* setupLogger taking the info level as the default.
setupLogger_InfoDefault(verbose) ==
    [level |-> CASE verbose <= 1 -> LevelInfo
                 [] verbose >= 2 -> LevelDebug]

\* setupLogger: the logger it returns, which is its handler's level
setupLogger(verbose) ==
    [level |-> CASE verbose <= 0 -> LevelWarn
                 [] verbose = 1  -> LevelInfo
                 [] verbose >= 2 -> LevelDebug]

\* slog.Logger.Enabled: a record of the given level is let through
Enabled(logger, level) == level >= logger.level

\* Values of the --verbose counter setupLogger is called with.
Verbosities == {-2, -1, 0, 1, 2, 3, 10}

\* The calls that are made on their own.
Calls ==
    [fn : {"textToStatus"}, text : StatusTexts]
    \cup [fn : {"setupLogger"}, verbose : Verbosities]
    \cup [fn : {"String"}, s : OrderStatuses]
    \cup [fn : {"getCredentials"},
          kUser : KeyringResults("keyring-user"), envUser : EnvValues("env-user"),
          kPass : KeyringResults("keyring-pass"), envPass : EnvValues("env-pass")]

CallInit ==
    /\ call \in Calls
    /\ ret = NoReturn
    /\ pc = "Start"
    /\ form = "none"
    /\ config = DefaultConfig
    /\ credentials = NoCredentials
    /\ browser = "nil"
    /\ page = FALSE
    /\ handler = "none"
    /\ sigChan = 0
    /\ ctxDone = FALSE
    /\ status = OrderStatusUnknown
    /\ checkErr = FALSE
    /\ lastErr = "nil"
    /\ nUnknown = 0
    /\ stdout = <<>>
    /\ exitCode = -1
    /\ outcome = "running"
    /\ nLogin = 0
    /\ nChecks = 0
    /\ nWaits = 0
    /\ nReloads = 0
    /\ nCommands = 0
    /\ deadline = FALSE
    /\ cancelAt = ""
    /\ afterCancel = 0
    /\ pageText = <<>>
    /\ arrivedForGood = FALSE

\* What a call made on its own leaves alone: the whole state of a run.
CallFrame ==
    UNCHANGED <<pc, form, config, credentials, browser, page, handler, sigChan, ctxDone,
                status, checkErr, lastErr, nUnknown, stdout, exitCode, outcome, counters,
                deadline, cancelAt, afterCancel, pageText, arrivedForGood, call>>

\* textToStatus(call.text), the first call: what it returns is kept both
\* as the result of the first call and as that of the latest one.
CallTextToStatus ==
    /\ call.fn = "textToStatus"
    /\ ret = NoReturn
    /\ ret' = [fn |-> call.fn, status |-> textToStatus(call.text),
               first |-> textToStatus(call.text), calls |-> 1]
    /\ CallFrame

\* textToStatus(call.text), called again with the same text.
CallTextToStatusAgain ==
    /\ call.fn = "textToStatus"
    /\ ret # NoReturn
    /\ ret.calls < MaxCalls
    /\ ret' = [ret EXCEPT !.status = textToStatus(call.text), !.calls = @ + 1]
    /\ CallFrame

\* Between two calls of textToStatus the program has gone on: the result of
\* its latest status read and the cancellation flag are others.
ProgramRuns ==
    /\ call.fn = "textToStatus"
    /\ status' \in OrderStatuses
    /\ checkErr' \in BOOLEAN
    /\ ctxDone' \in BOOLEAN
    /\ <<status', checkErr', ctxDone'>> # <<status, checkErr, ctxDone>>
    /\ UNCHANGED <<pc, form, config, credentials, browser, page, handler, sigChan,
                   lastErr, nUnknown, stdout, exitCode, outcome, counters, deadline,
                   cancelAt, afterCancel, pageText, arrivedForGood, call, ret>>

\* getCredentials(), with the keyring and the environment answering as the
\* call says.
CallGetCredentials ==
    /\ call.fn = "getCredentials"
    /\ ret = NoReturn
    /\ LET r == getCredentials(call.kUser, call.envUser, call.kPass, call.envPass)
       IN  ret' = [fn |-> call.fn, creds |-> r.creds, err |-> r.err,
                   lookups |-> r.lookups]
    /\ CallFrame

\* setupLogger(call.verbose)
CallSetupLogger ==
    /\ call.fn = "setupLogger"
    /\ ret = NoReturn
    /\ ret' = [fn |-> call.fn, logger |-> setupLogger(call.verbose)]
    /\ CallFrame

\* textToStatus(call.s.String()): the text String gives and the status
\* textToStatus makes of it.
CallStringThenTextToStatus ==
    /\ call.fn = "String"
    /\ ret = NoReturn
    /\ ret' = [fn |-> call.fn, text |-> String(call.s),
               status |-> textToStatus(String(call.s))]
    /\ CallFrame

CallNext ==
    \/ CallStringThenTextToStatus
    \/ CallTextToStatus
    \/ CallTextToStatusAgain
    \/ ProgramRuns
    \/ CallGetCredentials
    \/ CallSetupLogger

CallSpec == CallInit /\ [][CallNext]_vars

\* textToStatus was called and has returned.
TextToStatusReturned == call.fn = "textToStatus" /\ ret # NoReturn

\* C18: textToStatus returns a status for every text, never an error: the
\* matching status for each of the three phrases "Order Placed", "Preparing
\* Your Order" and "Order Arrived", and Unknown for every other text (the
\* empty one, a phrase in another case, between white space, cut short,
\* followed by more text, repeated, or with a control or non-ASCII character
\* in it).
C18_TextToStatusTotal ==
    TextToStatusReturned =>
        /\ ret.status \in OrderStatuses
        /\ call.text = <<"O","r","d","e","r"," ","P","l","a","c","e","d">> =>
              ret.status = OrderStatusPlaced
        /\ call.text = <<"P","r","e","p","a","r","i","n","g"," ","Y","o","u","r"," ",
                         "O","r","d","e","r">> =>
              ret.status = OrderStatusPreparing
        /\ call.text = <<"O","r","d","e","r"," ","A","r","r","i","v","e","d">> =>
              ret.status = OrderStatusArrived
        /\ call.text \notin Phrases => ret.status = OrderStatusUnknown

\* C18 happens: textToStatus was called with "Order Arrived" followed by a
\* non-ASCII character and has returned Unknown.
C18_Witness ==
    /\ TextToStatusReturned
    /\ call.text = OrderStatusArrived \o <<"é">>
    /\ ret.status = OrderStatusUnknown

\* getCredentials was called and has returned.
GetCredentialsReturned == call.fn = "getCredentials" /\ ret # NoReturn

\* The value getCredentials ends up with for a field: the keyring's, or the
\* environment variable's when the keyring lookup failed.
FinalValue(k, env) == IF k.err THEN env ELSE k.val

\* strings.Contains(err.Error(), name), name being one word
Names(err, name) == \E i \in 1..Len(err) : err[i] = name

\* C19: whenever the final value of either credential is empty (the keyring
\* lookup fails for both and neither variable is set, or the keyring returns
\* an empty value), getCredentials returns no credentials and an error whose
\* message names both RELISH_USERNAME and RELISH_PASSWORD.
C19_ErrorNamesBothVariables ==
    (/\ GetCredentialsReturned
     /\ \/ FinalValue(call.kUser, call.envUser) = ""
        \/ FinalValue(call.kPass, call.envPass) = "") =>
        /\ ret.err # NoError
        /\ ret.creds = NoCredentials
        /\ Names(ret.err, "RELISH_USERNAME")
        /\ Names(ret.err, "RELISH_PASSWORD")

\* C20: when the keyring lookup fails for both fields and both
\* RELISH_USERNAME and RELISH_PASSWORD are set and not empty, getCredentials
\* returns no error and exactly those two values.
C20_EnvironmentFallback ==
    (/\ GetCredentialsReturned
     /\ call.kUser.err /\ call.kPass.err
     /\ call.envUser # "" /\ call.envPass # "") =>
        /\ ret.err = NoError
        /\ ret.creds = [Username |-> call.envUser, Password |-> call.envPass]

\* C20 happens: both keyring lookups failed, both variables were set, and
\* getCredentials has returned their values.
C20_Witness ==
    /\ GetCredentialsReturned
    /\ call.kUser.err /\ call.kPass.err
    /\ call.envUser = "env-user" /\ call.envPass = "env-pass"
    /\ ret.creds = [Username |-> "env-user", Password |-> "env-pass"]

\* C21: when the keyring lookup for a field fails and the field's
\* environment variable is unset or empty, getCredentials fails with an error
\* whose message names that field's variable, RELISH_USERNAME for the
\* username and RELISH_PASSWORD for the password, whatever the other field's
\* lookups give.
C21_ErrorNamesMissingVariable ==
    GetCredentialsReturned =>
        /\ (call.kUser.err /\ call.envUser = "") =>
              (ret.err # NoError /\ Names(ret.err, "RELISH_USERNAME"))
        /\ (call.kPass.err /\ call.envPass = "") =>
              (ret.err # NoError /\ Names(ret.err, "RELISH_PASSWORD"))

\* How many of the lookups of a call were made for the given name.
LookupCount(lookups, name) == Cardinality({i \in 1..Len(lookups) : lookups[i] = name})

\* C22: in every call of getCredentials the keyring is asked
\* exactly once for each field and a field's environment variable is read
\* exactly when the keyring lookup of that field failed; and when the call
\* succeeds each field's value is the keyring's, or the field's variable's
\* when its keyring lookup failed, whatever source the other field came from.
C22_OneLookupPerField ==
    GetCredentialsReturned =>
        /\ LookupCount(ret.lookups, "EMAIL") = 1
        /\ LookupCount(ret.lookups, "PASSWORD") = 1
        /\ LookupCount(ret.lookups, "RELISH_USERNAME") = (IF call.kUser.err THEN 1 ELSE 0)
        /\ LookupCount(ret.lookups, "RELISH_PASSWORD") = (IF call.kPass.err THEN 1 ELSE 0)
        /\ ret.err = NoError =>
              /\ ret.creds.Username = FinalValue(call.kUser, call.envUser)
              /\ ret.creds.Password = FinalValue(call.kPass, call.envPass)

\* setupLogger was called and has returned.
SetupLoggerReturned == call.fn = "setupLogger" /\ ret # NoReturn

\* C23: the logger setupLogger returns lets through Warn and Error but
\* neither Info nor Debug for a verbosity of 0 or less, Info, Warn and Error
\* but not Debug for verbosity 1, and all four levels for every verbosity of
\* 2 or more.
C23_VerbosityToLevel ==
    SetupLoggerReturned =>
        /\ Enabled(ret.logger, LevelWarn)
        /\ Enabled(ret.logger, LevelError)
        /\ Enabled(ret.logger, LevelInfo) <=> call.verbose >= 1
        /\ Enabled(ret.logger, LevelDebug) <=> call.verbose >= 2

\* C23 happens: setupLogger was called with a negative verbosity and the
\* logger it returned lets Warn through and not Info.
C23_Witness ==
    /\ SetupLoggerReturned
    /\ call.verbose = -1
    /\ Enabled(ret.logger, LevelWarn)
    /\ ~Enabled(ret.logger, LevelInfo)

RoundTripReturned == call.fn = "String" /\ ret # NoReturn

\* C30: for each of the four statuses s, textToStatus(s.String()) is s, and
\* no other status has the text String gives for s.
C30_RoundTrip ==
    RoundTripReturned =>
        /\ ret.status = call.s
        /\ \A t \in OrderStatuses : String(t) = ret.text => t = call.s

\* C30 happens: the text of OrderStatusUnknown was classified, and the
\* status that came back is OrderStatusUnknown.
C30_Witness ==
    /\ RoundTripReturned
    /\ call.s = OrderStatusUnknown
    /\ ret.text = <<"U","n","k","n","o","w","n">>
    /\ ret.status = OrderStatusUnknown


----------------------------------------------------------------------------
\* C25: the post-arrival command is executed at most once in a run, only
\* when a non-empty command is configured, and only after a status read
\* returned Arrived without error; a run that ends by cancellation, by a
\* failure or on the single-shot not-arrived path never executed it.
C25_CommandOnlyAfterArrival ==
    /\ nCommands <= 1
    /\ (pc = "RunCommand" \/ nCommands > 0) =>
          /\ config.Command # ""
          /\ ~checkErr
          /\ status = OrderStatusArrived
          /\ nChecks > 0
          /\ stdout = <<"order has arrived">>
    /\ nCommands > 0 => outcome = "arrived"
    /\ outcome \in {"cancelled", "credentials", "session", "login", "not-arrived", "signal"}
          => nCommands = 0

C25_Witness ==
    /\ Exited
    /\ outcome = "arrived"
    /\ nCommands = 1
    /\ lastErr = "command"


----------------------------------------------------------------------------
\* t is the phrase p with nothing but whitespace before and after it.
SurroundedBySpace(p, t) ==
    \E i \in 1..Len(t), j \in 1..Len(t) :
        /\ SubSeq(t, i, j) = p
        /\ \A k \in 1..Len(t) : (k < i \/ k > j) => IsSpace(t[k])

\* CheckOrderStatus has returned to runNotifier.
CheckOrderStatusReturned == pc = "Handle"

\* C26: CheckOrderStatus returns (Unknown, error) exactly when the status
\* element was not found or its text could not be read; otherwise it
\* returns no error and the status of the phrase that the element's text
\* equals up to surrounding whitespace, Unknown when it equals none.
C26_CheckOrderStatusResult ==
    CheckOrderStatusReturned =>
        /\ checkErr <=> lastErr \in {"element", "text"}
        /\ checkErr => status = OrderStatusUnknown
        /\ ~checkErr =>
              /\ lastErr = "nil"
              /\ \A p \in Phrases : SurroundedBySpace(p, pageText) => string(status) = p
              /\ (\A p \in Phrases : ~SurroundedBySpace(p, pageText)) =>
                    status = OrderStatusUnknown

C26_Witness ==
    /\ CheckOrderStatusReturned
    /\ ~checkErr
    /\ pageText = <<" ", "\n">> \o OrderStatusArrived \o <<"\n">>
    /\ status = OrderStatusArrived


----------------------------------------------------------------------------
\* cancel() was called while the latest status read was in flight or before
\* its result was acted on, and that read returned Arrived.
CancelledDuringArrivedRead ==
    /\ cancelAt \in CheckPcs \cup {"Handle"}
    /\ ~checkErr
    /\ status = OrderStatusArrived

\* C27: a status read that returns Arrived takes precedence over a
\* cancellation signalled while the read was in flight: the notice is
\* printed and the configured command is run before the run ends with
\* success as arrived; the run ends as cancelled only from the check at the
\* top of the loop or from the wait.
C27_ArrivedBeforeCancel ==
    /\ [](CancelledDuringArrivedRead /\ pc \in {"RunCommand", "Exited"} =>
             stdout = <<"order has arrived">>)
    /\ [](CancelledDuringArrivedRead /\ Exited =>
             /\ outcome = "arrived"
             /\ exitCode = 0
             /\ nCommands = IF config.Command # "" THEN 1 ELSE 0)
    /\ [][(pc = "Handle" /\ pc' # pc /\ ~checkErr /\ status = OrderStatusArrived) =>
             /\ stdout' = Append(stdout, "order has arrived")
             /\ IF config.Command # ""
                THEN pc' = "RunCommand"
                ELSE Exited' /\ outcome' = "arrived" /\ exitCode' = 0]_vars
    /\ [][(outcome' = "cancelled" /\ outcome # "cancelled") => AtCancelCheck /\ ctxDone]_vars

C27_Witness ==
    /\ Exited
    /\ cancelAt \in CheckPcs
    /\ ~checkErr
    /\ status = OrderStatusArrived
    /\ outcome = "arrived"
    /\ exitCode = 0
    /\ stdout = <<"order has arrived">>
    /\ nCommands = 1


----------------------------------------------------------------------------
\* The page reload of a looping-mode run has just failed.
ReloadFailed == pc = "LoopTop" /\ lastErr = "reload" /\ ~config.Once

\* C28: in looping mode a failed page reload is not fatal: the step in which
\* the reload fails leaves the run running at the top of the loop, whose
\* next step is the cancellation check, and absent cancellation the run
\* reaches the next status read (shown for every read but the last one the
\* bound allows).
C28_FailedReloadNotFatal ==
    /\ [][(pc = "Refresh" /\ pc' # pc /\ lastErr' = "reload") =>
             (pc' = "LoopTop" /\ outcome' = "running" /\ exitCode' = -1)]_vars
    /\ [][(ReloadFailed /\ pc' # pc) =>
             \/ ctxDone /\ Exited' /\ outcome' = "cancelled" /\ exitCode' = 0
             \/ ~ctxDone /\ pc' = "CheckElement" /\ nChecks' = nChecks + 1]_vars
    /\ \A n \in 1..(MaxChecks - 1) :
          (ReloadFailed /\ nChecks = n) ~>
              ((pc = "CheckElement" /\ nChecks = n + 1) \/ ctxDone)

\* C28 happens: a reload failed, and the run has started the next read.
C28_Witness ==
    /\ ~config.Once
    /\ pc = "CheckElement"
    /\ lastErr = "reload"
    /\ nReloads = 1
    /\ nChecks = 2
    /\ ~ctxDone
    /\ Running


----------------------------------------------------------------------------
\* A looping-mode run is past login and still polling, and from now on every
\* status read succeeds and finds the Arrived phrase; the bound on the
\* number of reads leaves room for one of them.
PollingArrivedPage ==
    /\ arrivedForGood
    /\ ~config.Once
    /\ \/ pc \in CheckPcs
       \/ pc \in {"LoopTop", "Handle", "Wait", "Refresh"} /\ nChecks < MaxChecks

\* The run has printed the arrival notice and ended with success.
ArrivedAndSucceeded ==
    /\ Exited
    /\ outcome = "arrived"
    /\ exitCode = 0
    /\ stdout = <<"order has arrived">>

\* C29: in a looping-mode run that has logged in, if from some point on
\* every status read succeeds and the page shows the Arrived phrase, then,
\* with the orchestrator scheduled and every browser call and wait
\* returning, the run prints the arrival notice and terminates with success,
\* unless it is cancelled.
C29_ArrivedPageEndsRun ==
    PollingArrivedPage ~> (ArrivedAndSucceeded \/ cancelAt # "")

\* C29 happens: the order arrived while the run was polling, after a read
\* that did not find it, and the run ended as arrived without a cancellation.
C29_Witness ==
    /\ ArrivedAndSucceeded
    /\ arrivedForGood
    /\ ~config.Once
    /\ nChecks >= 2
    /\ nReloads >= 1
    /\ cancelAt = ""

====
